---- MODULE Spec2Model ----
(***************************************************************************)
(* A model of imirunner.py: the instance directory (get_instance), the job *)
(* dispatcher (run_command), the completion monitor (tail_logfile) and the *)
(* result retriever (copy_to_local).                                       *)
(*                                                                         *)
(* Python strings are sequences of character tokens, so that strip, lower, *)
(* basename, splitext and the f-string of the result directory are         *)
(* computed and not assumed.  None is the one-token sequence NoneVal.      *)
(***************************************************************************)
EXTENDS Integers, Sequences, FiniteSets, TLC

VARIABLES
    envId,        \* os.environ[INSTANCE_ID_VAR]  (NoneVal when unset)
    envUrl,       \* os.environ[PUBLIC_URL_VAR]   (NoneVal when unset)
    cmd,          \* the function the caller invoked
    pc,           \* position in the code
    stack,        \* return positions of the calls in progress
    instance_no,  \* the instance_no argument, passed down unchanged
    resp,         \* the answer of ec2.describe_instances() being processed
    giRet,        \* what the last get_instance call returned
    giLog,        \* the message the last get_instance call logged
    configfile,   \* run_command: the configfile argument (a path)
    tmux,         \* run_command: the tmux argument
    cfg,          \* run_command: the config file on disk
    run_name,     \* run_command: the local run_name
    use_slurm,    \* run_command: the local use_slurm ("None", "True", "False")
    exitCode,     \* the status sys.exit was called with (0 while none)
    exitReason,   \* the error logged before sys.exit
    issued,       \* the scp, ssh and rsync commands attempted by this invocation
    lastRc,       \* how the last subprocess that returned ended ("ok", "fail")
    tl_run_name,  \* tail_logfile: the run_name argument
    linesRead,    \* tail_logfile: the lines of the log its tail command has delivered
    nCopy,        \* tail_logfile: the calls of copy_to_local it made
    cl_run_name,  \* copy_to_local: the run_name argument
    overwrite,    \* copy_to_local: the overwrite argument
    local_dir,    \* copy_to_local: the local local_dir
    idx,          \* copy_to_local: the transfer item the loop is at (1-based)
    files,        \* copy_to_local: the wildcard matches still to copy
    failKinds,    \* copy_to_local: the ways transfers of this call failed
    clRet,        \* what the last copy_to_local call returned
    fs,           \* the directories that exist under LOCAL_DATA_PATH
    options,      \* create_instance: the options argument
    instance_id,  \* create_instance, stop_instance, terminate_instance: the local
    public_dns,   \* create_instance: the local public_dns
    waited,       \* create_instance: how the instance_status_ok waiter ended
    attempts,     \* create_instance: the handshakes the loop has run
    ssh_ready,    \* create_instance: the local ssh_ready
    crRet,        \* what the last create_instance call returned
    crLog,        \* the error the last create_instance call logged
    public_url,   \* instance_setup: the public_url argument; run_command: the
                  \* local public_url, the address it sends its commands to
    present,      \* instance_setup: the files of files_to_copy that exist locally
    copyNo,       \* instance_setup: the entry of files_to_copy the loop is at
    ran,          \* instance_setup: what the remote shell ran of the command line
    suRet,        \* what the last instance_setup call returned
    apiRc,        \* how the last stop_instances or terminate_instances call ended
    lcLog         \* the message stop_instance or terminate_instance logged

(***************************************************************************)
(* Bounds of the model.                                                    *)
(***************************************************************************)
MaxInstances == 2
MaxReservations == 2
MaxIndex == 2
MaxConfigLines == 2
MaxLogLines == 2
MaxFiles == 1
MaxSuffix == 2

(***************************************************************************)
(* Python values.                                                          *)
(***************************************************************************)
NoneVal == <<"<None>">>
EmptyStr == <<>>
Truthy(v) == v # NoneVal /\ v # EmptyStr

\* os.getenv(name): the value, or None when the variable is not set
GetEnv(slot) == slot

(***************************************************************************)
(* The provider.  An instance as describe_instances reports it; the key    *)
(* PublicDnsName may be missing (Absent).                                  *)
(***************************************************************************)
Absent == <<"<absent>">>
Running == <<"running">>
Stopped == <<"stopped">>
Pending == <<"pending">>

InstancePool ==
    { [InstanceId |-> <<"i-1">>, State |-> Running, PublicDnsName |-> <<"h1">>],
      [InstanceId |-> <<"i-2">>, State |-> Stopped, PublicDnsName |-> EmptyStr],
      [InstanceId |-> <<"i-3">>, State |-> Pending, PublicDnsName |-> Absent] }

SeqsUpTo(S, n) == UNION { [1..k -> S] : k \in 0..n }

RECURSIVE Flatten(_)
Flatten(ss) == IF ss = <<>> THEN <<>> ELSE Head(ss) \o Flatten(Tail(ss))

Distinct(s) == \A i, j \in 1..Len(s) : i # j => s[i] # s[j]

\* The reservations a describe_instances answer may hold: each reservation
\* holds at least one instance, and no instance is reported twice
ReservationLists ==
    { rs \in SeqsUpTo(SeqsUpTo(InstancePool, MaxInstances) \ {<<>>}, MaxReservations) :
        Len(Flatten(rs)) <= MaxInstances /\ Distinct(Flatten(rs)) }

NoResponse == [kind |-> "none", Reservations |-> <<>>]
ErrorResponse == [kind |-> "error", Reservations |-> <<>>]
Responses ==
    { [kind |-> "ok", Reservations |-> rs] : rs \in ReservationLists }
        \cup {ErrorResponse}

InstanceNos == (0 - MaxIndex - 1)..MaxIndex

(***************************************************************************)
(* get_instance                                                            *)
(***************************************************************************)
\* inst.get('PublicDnsName', 'N/A')
DictGetDns(inst) ==
    IF inst.PublicDnsName = Absent THEN <<"N", "/", "A">> ELSE inst.PublicDnsName

\* lines 474-485: the instance list built from the reservations
RECURSIVE BuildInstances(_)
BuildInstances(reservations) ==
    IF reservations = <<>> THEN <<>>
    ELSE [ k \in 1..Len(Head(reservations)) |->
             [id |-> Head(reservations)[k].InstanceId,
              state |-> Head(reservations)[k].State,
              public_dns |-> DictGetDns(Head(reservations)[k])] ]
         \o BuildInstances(Tail(reservations))

\* instances[i] of a Python list: a negative i counts from the end, and an
\* i outside -len..len-1 raises IndexError
PyIndexRaises(s, i) == i >= Len(s) \/ i < 0 - Len(s)
PyIndex(s, i) == IF i >= 0 THEN s[i + 1] ELSE s[Len(s) + i + 1]

GiFail(msg, id, url) == [ret |-> NoneVal, id |-> id, url |-> url, log |-> msg]

\* a selection that takes the instance after the one asked for
GetInstanceOffByOne(r, no, id, url) ==
    IF r.kind # "ok" THEN GiFail("error_listing", id, url)
    ELSE LET instances == BuildInstances(r.Reservations) IN
         IF instances = <<>> THEN GiFail("none_found", id, url)
         ELSE IF no >= Len(instances) THEN GiFail("invalid_number", id, url)
         ELSE IF PyIndexRaises(instances, no) THEN GiFail("error_listing", id, url)
         ELSE LET selected == PyIndex(instances, IF no + 1 >= Len(instances) THEN 0 ELSE no + 1) IN
              [ret |-> selected.state, id |-> selected.id,
               url |-> selected.public_dns, log |-> "selected"]

\* a selection that clears the slots before it validates the index
GetInstanceClearsFirst(r, no, id, url) ==
    IF r.kind # "ok" THEN GiFail("error_listing", EmptyStr, EmptyStr)
    ELSE LET instances == BuildInstances(r.Reservations) IN
         IF instances = <<>> THEN GiFail("none_found", EmptyStr, EmptyStr)
         ELSE IF no >= Len(instances) THEN GiFail("invalid_number", EmptyStr, EmptyStr)
         ELSE IF PyIndexRaises(instances, no) THEN GiFail("error_listing", EmptyStr, EmptyStr)
         ELSE LET selected == PyIndex(instances, no) IN
              [ret |-> selected.state, id |-> selected.id,
               url |-> selected.public_dns, log |-> "selected"]

\* lines 471-519, given the answer r of describe_instances (line 473) and
\* the slots' values: the return value, the slots' new values, the message
GetInstance(r, no, id, url) ==
    IF r.kind # "ok" THEN GiFail("error_listing", id, url)              \* 517-519
    ELSE LET instances == BuildInstances(r.Reservations) IN
         IF instances = <<>> THEN GiFail("none_found", id, url)          \* 495-497
         ELSE IF no >= Len(instances)
              THEN GiFail("invalid_number", id, url)                     \* 500-502
         ELSE IF PyIndexRaises(instances, no)
              THEN GiFail("error_listing", id, url)                      \* 504, 517-519
         ELSE LET selected == PyIndex(instances, no) IN                  \* 504-515
              [ret |-> selected.state, id |-> selected.id,
               url |-> selected.public_dns, log |-> "selected"]

(***************************************************************************)
(* Text.                                                                   *)
(***************************************************************************)
Whitespace == {" ", "\n", "\t"}
Quotes == {"\"", "'"}

\* str.strip(chars)
RECURSIVE LStrip(_, _)
LStrip(s, chars) ==
    IF s # <<>> /\ Head(s) \in chars THEN LStrip(Tail(s), chars) ELSE s
RECURSIVE RStrip(_, _)
RStrip(s, chars) ==
    IF s # <<>> /\ s[Len(s)] \in chars THEN RStrip(SubSeq(s, 1, Len(s) - 1), chars)
    ELSE s
Strip(s, chars) == RStrip(LStrip(s, chars), chars)

\* str.lower()
LowerChar(c) ==
    CASE c = "T" -> "t" [] c = "R" -> "r" [] c = "U" -> "u" [] c = "E" -> "e"
      [] c = "F" -> "f" [] c = "A" -> "a" [] c = "L" -> "l" [] c = "S" -> "s"
      [] OTHER -> c
Lower(s) == [k \in 1..Len(s) |-> LowerChar(s[k])]

\* the largest k with s[k] = c, or 0
LastIndexOf(s, c) ==
    IF \E k \in 1..Len(s) : s[k] = c
    THEN CHOOSE k \in 1..Len(s) : s[k] = c /\ \A j \in (k + 1)..Len(s) : s[j] # c
    ELSE 0

\* os.path.basename
Basename(path) == SubSeq(path, LastIndexOf(path, "/") + 1, Len(path))

\* os.path.splitext(name)[0]: the name up to its last dot, unless only dots
\* come before that dot
SplitextRoot(name) ==
    LET d == LastIndexOf(name, ".") IN
    IF d = 0 \/ \A k \in 1..(d - 1) : name[k] = "." THEN name
    ELSE SubSeq(name, 1, d - 1)

\* line 239
ConfigStem(path) == SplitextRoot(Basename(path))

\* str(counter)
DigitChar(d) == <<"0", "1", "2", "3", "4", "5", "6", "7", "8", "9">>[d + 1]
RECURSIVE IntToStr(_)
IntToStr(n) ==
    IF n < 10 THEN <<DigitChar(n)>> ELSE IntToStr(n \div 10) \o <<DigitChar(n % 10)>>

\* x in s, for a marker x that is one token of the text
Contains(s, x) == \E k \in 1..Len(s) : s[k] = x

(***************************************************************************)
(* run_command: the config file and its validation.                        *)
(***************************************************************************)
ConfigPaths ==
    { <<"a", ".", "y", "m", "l">>,
      <<"d", ".", "x", "/", "a">>,
      <<"b", ".", "y", "m", "l">> }

\* the lines a config file is made of
ConfigLinePool ==
    { <<"RunName:", " ", "a", "\n">>,
      <<"RunName:", " ", "\"", "a", "\"", "\n">>,
      <<"RunName:", " ", "'", "b", "'", "\n">>,
      <<"UseSlurm:", " ", "t", "r", "u", "e", "\n">>,
      <<"UseSlurm:", " ", "F", "a", "l", "s", "e", "\n">>,
      <<"UseSlurm:", " ", "y", "e", "s", "\n">>,
      <<" ", "RunName:", " ", "a", "\n">> }

NoFile == [exists |-> FALSE, lines |-> <<>>]
ConfigFiles ==
    { [exists |-> TRUE, lines |-> ls] : ls \in SeqsUpTo(ConfigLinePool, MaxConfigLines) }
        \cup {NoFile}

\* line.startswith(key), the key being the line's first token
StartsWith(line, key) == line # <<>> /\ Head(line) = key
\* line.split(':', 1)[1], the colon being the end of the key
AfterColon(line) == Tail(line)

\* line 247
RunNameValue(line) == Strip(Strip(AfterColon(line), Whitespace), Quotes)
\* line 256
SlurmValue(line) == Lower(Strip(AfterColon(line), Whitespace))

Scanned(exit, rn, us) == [exit |-> exit, run_name |-> rn, use_slurm |-> us]

\* a scan that takes the declared name without comparing it to the stem
RECURSIVE ScanConfigNoNameCheck(_, _, _, _)
ScanConfigNoNameCheck(lines, stem, rn, us) ==
    IF lines = <<>> THEN Scanned("", rn, us)
    ELSE IF StartsWith(Head(lines), "RunName:")
    THEN ScanConfigNoNameCheck(Tail(lines), stem, RunNameValue(Head(lines)), us)
    ELSE IF StartsWith(Head(lines), "UseSlurm:")
    THEN IF SlurmValue(Head(lines)) = <<"t", "r", "u", "e">>
         THEN ScanConfigNoNameCheck(Tail(lines), stem, rn, "True")
         ELSE IF SlurmValue(Head(lines)) = <<"f", "a", "l", "s", "e">>
         THEN ScanConfigNoNameCheck(Tail(lines), stem, rn, "False")
         ELSE Scanned("invalid_slurm", rn, us)
    ELSE ScanConfigNoNameCheck(Tail(lines), stem, rn, us)

\* lines 244-263: the loop over the file's lines, from the locals rn and us;
\* exit names the error the loop ended with by sys.exit(1), "" when it ran
\* to the end of the file
RECURSIVE ScanConfig(_, _, _, _)
ScanConfig(lines, stem, rn, us) ==
    IF lines = <<>> THEN Scanned("", rn, us)
    ELSE IF StartsWith(Head(lines), "RunName:")                          \* 246
    THEN IF RunNameValue(Head(lines)) # stem                             \* 248
         THEN Scanned("name_mismatch", rn, us)                           \* 249-251
         ELSE ScanConfig(Tail(lines), stem, RunNameValue(Head(lines)), us)
    ELSE IF StartsWith(Head(lines), "UseSlurm:")                         \* 255
    THEN IF SlurmValue(Head(lines)) = <<"t", "r", "u", "e">>             \* 257
         THEN ScanConfig(Tail(lines), stem, rn, "True")
         ELSE IF SlurmValue(Head(lines)) = <<"f", "a", "l", "s", "e">>   \* 259
         THEN ScanConfig(Tail(lines), stem, rn, "False")
         ELSE Scanned("invalid_slurm", rn, us)                           \* 261-263
    ELSE ScanConfig(Tail(lines), stem, rn, us)

\* a check of the mode that misses the UseSlurm=false case
ModeConflictOneSided(us, tm) ==
    IF us # "None" /\ us = "True" /\ tm THEN "conflict_slurm_tmux" ELSE ""

\* lines 266-274: the error the mode check ends with, "" when it passes
ModeConflict(us, tm) ==
    IF us = "None" THEN ""                                               \* 266
    ELSE IF us = "True" /\ tm THEN "conflict_slurm_tmux"                 \* 267-270
    ELSE IF us = "False" /\ ~tm THEN "conflict_noslurm_notmux"           \* 271-274
    ELSE ""

\* lines 239-274: what the validation of the file at path ends with
Validate(file, path, tm) ==
    IF ~file.exists THEN Scanned("exception", NoneVal, "None")           \* 243, 308-310
    ELSE LET sc == ScanConfig(file.lines, ConfigStem(path), NoneVal, "None") IN
         IF sc.exit # "" THEN sc
         ELSE Scanned(ModeConflict(sc.use_slurm, tm), sc.run_name, sc.use_slurm)

ValidationErrors ==
    {"name_mismatch", "invalid_slurm", "conflict_slurm_tmux", "conflict_noslurm_notmux"}

(***************************************************************************)
(* tail_logfile: the log lines.                                            *)
(***************************************************************************)
LogLinePool ==
    { <<"x">>,
      <<"p", "o", "s", "t", "e", "r", "i", "o", "r">>,
      <<"x", "Posterior", "y">>,
      <<"IMI ended", "x">> }

\* a test that knows only one of the two markers
IsCompletionLinePosteriorOnly(line) == Contains(line, "Posterior")

\* line 328
IsCompletionLine(line) == Contains(line, "Posterior") \/ Contains(line, "IMI ended")

(***************************************************************************)
(* copy_to_local: the local directory and the transfer items.              *)
(***************************************************************************)
LOCAL_DATA_PATH == <<"data">>
JobNames == { <<"a">> }

\* line 391
LocalDirBase(rn) == LOCAL_DATA_PATH \o <<"/">> \o rn
\* line 399
SuffixedDir(base, counter) == base \o <<"_">> \o IntToStr(counter)

\* the directories of job rn the model lets exist
DirPool(rn) ==
    {LocalDirBase(rn)} \cup { SuffixedDir(LocalDirBase(rn), k) : k \in 1..MaxSuffix }

\* a loop that starts from the first suffixed name
RECURSIVE FirstFreeSkipsBase(_, _, _, _)
FirstFreeSkipsBase(base, dir, counter, exist) ==
    IF SuffixedDir(base, counter) \in exist
    THEN FirstFreeSkipsBase(base, dir, counter + 1, exist)
    ELSE [dir |-> SuffixedDir(base, counter), counter |-> counter + 1]

\* lines 397-400: the while loop, from local_dir = dir and counter
RECURSIVE FirstFree(_, _, _, _)
FirstFree(base, dir, counter, exist) ==
    IF dir \in exist                                                      \* 398
    THEN FirstFree(base, SuffixedDir(base, counter), counter + 1, exist)  \* 399-400
    ELSE [dir |-> dir, counter |-> counter]

\* lines 395-401
ChooseLocalDir(rn, ow, exist) ==
    IF ow THEN [dir |-> LocalDirBase(rn), counter |-> 1]
    ELSE FirstFree(LocalDirBase(rn), LocalDirBase(rn), 1, exist)

\* line 392
RemoteBase(rn) == <<"/home/ubuntu/imi_output_dir", "/">> \o rn

\* lines 406-418
TransferItems(rn) ==
    << [remote |-> RemoteBase(rn) \o <<"/", "preview">>, local_subdir |-> "preview"],
       [remote |-> RemoteBase(rn) \o <<"/", "inversion">>, local_subdir |-> "inversion"],
       [remote |-> RemoteBase(rn) \o <<"/", "hemco_prior_emis">>,
        local_subdir |-> "hemco_prior_emis"],
       [remote |-> RemoteBase(rn) \o <<"/", "archive_sf">>, local_subdir |-> "archive_sf"],
       [remote |-> RemoteBase(rn) \o <<"/", "imi_output", ".log">>, local_subdir |-> ""],
       [remote |-> RemoteBase(rn) \o <<"/", "StateVector", ".nc">>, local_subdir |-> ""],
       [remote |-> RemoteBase(rn) \o <<"/", "*", ".yml">>, local_subdir |-> ""],
       [remote |-> RemoteBase(rn) \o <<"/", "config_">> \o rn \o <<".yml">>,
        local_subdir |-> "config.yml"] >>

NItems == 8

\* lines 425-458: the branch an item takes
ItemKind(remote_path) ==
    IF Contains(remote_path, "*") THEN "wildcard"                          \* 425
    ELSE IF Basename(remote_path) # <<>>
            /\ Basename(remote_path)[Len(Basename(remote_path))] = ".yml"
         THEN "config"                                                     \* 438
    ELSE IF Contains(remote_path, "preview") \/ Contains(remote_path, "inversion")
         THEN "rsync"                                                      \* 446
    ELSE "scp"                                                             \* 453

\* the program the branch runs
ItemProgram(kind) == IF kind = "rsync" THEN "rsync" ELSE "scp"

\* an exception of a transfer that leaves the loop for the outer handler
ItemExceptionPropagates == "propagate"

\* lines 460-462: the handler of an exception of one item's transfer
ItemExceptionHandler == "continue"

\* how a subprocess may end: subprocess.run returns whatever the exit status
\* ("ok", "fail"), or raises when the program cannot be started ("raised")
Outcomes == {"ok", "fail", "raised"}

Op(program, what) == [op |-> program, what |-> what]

(***************************************************************************)
(* The state machine.                                                      *)
(***************************************************************************)
selVars == <<envId, envUrl, resp, giRet, giLog>>
argVars == <<instance_no, configfile, tmux, cfg>>
runVars == <<run_name, use_slurm>>
outVars == <<exitCode, exitReason>>
tailVars == <<tl_run_name, linesRead, nCopy>>
copyVars == <<cl_run_name, overwrite, local_dir, idx, files, failKinds, clRet>>
createVars == <<options, instance_id, public_dns, waited, attempts, ssh_ready,
                crRet, crLog>>
setupVars == <<public_url, present, copyNo, ran, suRet>>
lifeVars == <<apiRc, lcLog>>
mgmtVars == <<createVars, setupVars, lifeVars>>
vars == <<envId, envUrl, cmd, pc, stack, instance_no, resp, giRet, giLog,
          configfile, tmux, cfg, run_name, use_slurm, exitCode, exitReason,
          issued, lastRc, tl_run_name, linesRead, nCopy, cl_run_name,
          overwrite, local_dir, idx, files, failKinds, clRet, fs,
          options, instance_id, public_dns, waited, attempts, ssh_ready,
          crRet, crLog, public_url, present, copyNo, ran, suRet, apiRc,
          lcLog>>

\* a call of get_instance(instance_no) that returns to position back
CallGetInstance(back) ==
    /\ pc' = "gi_describe"
    /\ stack' = <<back>> \o stack

\* return to the caller
Return ==
    /\ pc' = Head(stack)
    /\ stack' = Tail(stack)

\* sys.exit(1) after logging the error reason
SysExit(reason) ==
    /\ pc' = "exit"
    /\ exitCode' = 1
    /\ exitReason' = reason

\* line 473: the provider answers, or the call raises
GiDescribe ==
    /\ pc = "gi_describe"
    /\ \E r \in Responses : resp' = r
    /\ pc' = "gi_body"
    /\ UNCHANGED <<mgmtVars, envId, envUrl, giRet, giLog, cmd, stack, argVars, runVars,
                   outVars, issued, lastRc, tailVars, copyVars, fs>>

\* lines 474-519
GiBody ==
    /\ pc = "gi_body"
    /\ LET out == GetInstance(resp, instance_no, GetEnv(envId), GetEnv(envUrl)) IN
         /\ envId' = out.id
         /\ envUrl' = out.url
         /\ giRet' = out.ret
         /\ giLog' = out.log
    /\ resp' = NoResponse
    /\ Return
    /\ UNCHANGED <<mgmtVars, cmd, argVars, runVars, outVars, issued, lastRc, tailVars,
                   copyVars, fs>>

\* handlers['get_instance'] (line 658)
StartGetInstance ==
    /\ pc = "idle"
    /\ cmd' = "get_instance"
    /\ \E n \in InstanceNos : instance_no' = n
    /\ CallGetInstance("done")
    /\ UNCHANGED <<mgmtVars, selVars, configfile, tmux, cfg, runVars, outVars, issued,
                   lastRc, tailVars, copyVars, fs>>

(***************************************************************************)
(* run_command                                                             *)
(***************************************************************************)
\* line 226: the call, and line 229: its call of get_instance
StartRun ==
    /\ pc = "idle"
    /\ cmd' = "run"
    /\ \E n \in InstanceNos : instance_no' = n
    /\ \E p \in ConfigPaths : configfile' = p
    /\ \E t \in BOOLEAN : tmux' = t
    /\ \E f \in ConfigFiles : cfg' = f
    /\ CallGetInstance("rc_selected")
    /\ UNCHANGED <<mgmtVars, selVars, runVars, outVars, issued, lastRc, tailVars,
                   copyVars, fs>>

\* lines 229-236
RunSelected ==
    /\ pc = "rc_selected"
    /\ IF ~Truthy(giRet) \/ ~Truthy(GetEnv(envUrl))
       THEN pc' = "done"
       ELSE pc' = "rc_validate"
    /\ public_url' = IF Truthy(giRet) THEN GetEnv(envUrl) ELSE public_url  \* 233
    /\ UNCHANGED <<createVars, present, copyNo, ran, suRet, lifeVars, selVars,
                   cmd, stack, argVars, runVars, outVars, issued, lastRc,
                   tailVars, copyVars, fs>>

\* lines 239-274, after the commands in before were sent to the instance
RunValidateAfter(before) ==
    /\ pc = "rc_validate"
    /\ issued' = issued \o before
    /\ LET v == Validate(cfg, configfile, tmux) IN
         /\ run_name' = v.run_name
         /\ use_slurm' = v.use_slurm
         /\ IF v.exit # ""
            THEN SysExit(v.exit)
            ELSE pc' = "rc_kalman" /\ UNCHANGED outVars
    /\ UNCHANGED <<mgmtVars, selVars, cmd, stack, argVars, lastRc, tailVars, copyVars, fs>>

\* a validation that runs once the config file has been copied
RunValidateLate == RunValidateAfter(<<Op("scp", "config")>>)

\* lines 239-274
RunValidate == RunValidateAfter(<<>>)

\* lines 277-285: KalmanPeriods.csv is copied when it exists locally
RunCopyKalman ==
    /\ pc = "rc_kalman"
    /\ \E exists \in BOOLEAN, o \in Outcomes :
         IF ~exists
         THEN /\ o = "ok"
              /\ pc' = "rc_copycfg"
              /\ UNCHANGED <<issued, lastRc, outVars>>
         ELSE /\ issued' = Append(issued, Op("scp", "kalman"))
              /\ IF o = "raised"
                 THEN SysExit("exception") /\ UNCHANGED lastRc           \* 308-310
                 ELSE pc' = "rc_copycfg" /\ lastRc' = o /\ UNCHANGED outVars
    /\ UNCHANGED <<mgmtVars, selVars, cmd, stack, argVars, runVars, tailVars, copyVars, fs>>

\* lines 287-291: the config file is copied; the exit status is not read
RunCopyConfig ==
    /\ pc = "rc_copycfg"
    /\ issued' = Append(issued, Op("scp", "config"))
    /\ \E o \in Outcomes :
         IF o = "raised"
         THEN SysExit("exception") /\ UNCHANGED lastRc                   \* 308-310
         ELSE pc' = "rc_launch" /\ lastRc' = o /\ UNCHANGED outVars
    /\ UNCHANGED <<mgmtVars, selVars, cmd, stack, argVars, runVars, tailVars, copyVars, fs>>

\* lines 293-303: the launch command; the exit status is not read
RunLaunch ==
    /\ pc = "rc_launch"
    /\ issued' = Append(issued, Op("ssh", IF tmux THEN "launch_tmux" ELSE "launch_sbatch"))
    /\ \E o \in Outcomes :
         IF o = "raised"
         THEN SysExit("exception") /\ UNCHANGED lastRc                   \* 308-310
         ELSE pc' = "rc_launched" /\ lastRc' = o /\ UNCHANGED outVars
    /\ UNCHANGED <<mgmtVars, selVars, cmd, stack, argVars, runVars, tailVars, copyVars, fs>>

\* lines 305-306: the call of tail_logfile; run_command reads none of its
\* locals, nor the config file, after it (public_url stays, as the record of
\* where the job went)
RunHandOff ==
    /\ pc = "rc_launched"
    /\ tl_run_name' = IF Truthy(run_name) THEN run_name ELSE ConfigStem(configfile)
    /\ linesRead' = <<>>
    /\ nCopy' = 0
    /\ pc' = "tl_start"
    /\ stack' = <<"rc_return">> \o stack
    /\ configfile' = <<>>
    /\ cfg' = NoFile
    /\ run_name' = NoneVal
    /\ use_slurm' = "None"
    /\ UNCHANGED <<mgmtVars, selVars, cmd, instance_no, tmux, outVars, issued, lastRc,
                   copyVars, fs>>

\* tail_logfile returned: run_command returns
RunReturn ==
    /\ pc = "rc_return"
    /\ pc' = "done"
    /\ UNCHANGED <<mgmtVars, selVars, cmd, stack, argVars, runVars, outVars, issued,
                   lastRc, tailVars, copyVars, fs>>

(***************************************************************************)
(* tail_logfile                                                            *)
(***************************************************************************)
\* handlers['log'] (line 655), or a call with a run_name
StartTail ==
    /\ pc = "idle"
    /\ cmd' = "log"
    /\ \E n \in InstanceNos : instance_no' = n
    /\ \E rn \in JobNames \cup {NoneVal} : tl_run_name' = rn
    /\ linesRead' = <<>>
    /\ nCopy' = 0
    /\ pc' = "tl_start"
    /\ stack' = <<"done">>
    /\ UNCHANGED <<mgmtVars, selVars, configfile, tmux, cfg, runVars, outVars, issued,
                   lastRc, copyVars, fs>>

\* line 313
TailStart ==
    /\ pc = "tl_start"
    /\ CallGetInstance("tl_selected")
    /\ UNCHANGED <<mgmtVars, selVars, cmd, argVars, runVars, outVars, issued, lastRc,
                   tailVars, copyVars, fs>>

\* lines 313-316
TailSelected ==
    /\ pc = "tl_selected"
    /\ IF ~Truthy(giRet) THEN Return ELSE pc' = "tl_open" /\ UNCHANGED stack
    /\ UNCHANGED <<mgmtVars, selVars, cmd, argVars, runVars, outVars, issued, lastRc,
                   tailVars, copyVars, fs>>

\* a tail that watches for completion whether or not it was given a job name
MonitoredAlways(rn) == TRUE

\* line 324: the stream is read for completion lines only with a job name
Monitored(rn) == Truthy(rn)

\* lines 319-325 and 332-336: the ssh tail command is started, piped to
\* tail_logfile with a job name and in the foreground without one
TailOpen ==
    /\ pc = "tl_open"
    /\ issued' = Append(issued, Op("ssh", "tail"))
    /\ \E o \in Outcomes :
         /\ o # "fail"
         /\ IF o = "raised" THEN Return                                  \* 335-336
            ELSE IF Monitored(tl_run_name)
            THEN pc' = "tl_read" /\ UNCHANGED stack                      \* 325
            ELSE pc' = "tl_fg" /\ UNCHANGED stack                        \* 333
    /\ UNCHANGED <<mgmtVars, selVars, cmd, argVars, runVars, outVars, lastRc,
                   tailVars, copyVars, fs>>

\* line 333: the tail command writes the next line of the log to the
\* terminal, or ends (the connection closes, the user interrupts it)
TailForeground ==
    /\ pc = "tl_fg"
    /\ \E line \in LogLinePool \cup {<<>>}, o \in {"ok", "fail"} :
         IF line = <<>>
         THEN /\ lastRc' = o
              /\ Return
              /\ UNCHANGED linesRead
         ELSE /\ o = "ok"
              /\ Len(linesRead) < MaxLogLines
              /\ linesRead' = Append(linesRead, line)
              /\ UNCHANGED <<pc, stack, lastRc>>
    /\ UNCHANGED <<mgmtVars, selVars, cmd, argVars, runVars, outVars, issued,
                   tl_run_name, nCopy, copyVars, fs>>

\* lines 326-331: readline returns the next line, or b'' at the end of the
\* stream; a completion line calls copy_to_local(run_name, instance_no)
TailRead ==
    /\ pc = "tl_read"
    /\ \E line \in LogLinePool \cup {<<>>} :
         IF line = <<>>
         THEN /\ Return
              /\ UNCHANGED <<tailVars, cl_run_name, overwrite>>
         ELSE /\ Len(linesRead) < MaxLogLines
              /\ linesRead' = Append(linesRead, line)
              /\ IF IsCompletionLine(line)                               \* 328
                 THEN /\ nCopy' = nCopy + 1                              \* 330
                      /\ cl_run_name' = tl_run_name
                      /\ overwrite' = FALSE
                      /\ pc' = "cl_start"
                      /\ stack' = <<"tl_copied">> \o stack
                 ELSE UNCHANGED <<pc, stack, nCopy, cl_run_name, overwrite>>
              /\ UNCHANGED tl_run_name
    /\ UNCHANGED <<mgmtVars, selVars, cmd, argVars, runVars, outVars, issued, lastRc,
                   local_dir, idx, files, failKinds, clRet, fs>>

\* line 331: copy_to_local returned; break, and tail_logfile returns
TailCopied ==
    /\ pc = "tl_copied"
    /\ Return
    /\ UNCHANGED <<mgmtVars, selVars, cmd, argVars, runVars, outVars, issued, lastRc,
                   tailVars, copyVars, fs>>

(***************************************************************************)
(* copy_to_local                                                           *)
(***************************************************************************)
\* handlers['copy_local'] (line 656)
StartCopy ==
    /\ pc = "idle"
    /\ cmd' = "copy_local"
    /\ \E n \in InstanceNos : instance_no' = n
    /\ \E rn \in JobNames : cl_run_name' = rn
    /\ \E ow \in BOOLEAN : overwrite' = ow
    /\ pc' = "cl_start"
    /\ stack' = <<"done">>
    /\ UNCHANGED <<mgmtVars, selVars, configfile, tmux, cfg, runVars, outVars, issued,
                   lastRc, tailVars, local_dir, idx, files, failKinds, clRet, fs>>

\* line 381
CopyStart ==
    /\ pc = "cl_start"
    /\ CallGetInstance("cl_selected")
    /\ local_dir' = NoneVal
    /\ idx' = 0
    /\ files' = 0 - 1
    /\ failKinds' = {}
    /\ clRet' = NoneVal
    /\ UNCHANGED <<mgmtVars, selVars, cmd, argVars, runVars, outVars, issued, lastRc,
                   tailVars, cl_run_name, overwrite, fs>>

\* lines 381-388
CopySelected ==
    /\ pc = "cl_selected"
    /\ IF ~Truthy(giRet) \/ ~Truthy(GetEnv(envUrl))
       THEN Return
       ELSE pc' = "cl_mkdir" /\ UNCHANGED stack
    /\ UNCHANGED <<mgmtVars, selVars, cmd, argVars, runVars, outVars, issued, lastRc,
                   tailVars, copyVars, fs>>

\* lines 391-403: the directory is chosen and made; makedirs may raise
CopyMkdir ==
    /\ pc = "cl_mkdir"
    /\ LET c == ChooseLocalDir(cl_run_name, overwrite, fs) IN
         /\ c.counter - 1 <= MaxSuffix
         /\ \E o \in {"ok", "raised"} :
              IF o = "raised"
              THEN /\ Return                                             \* 467-469
                   /\ UNCHANGED <<local_dir, idx, fs>>
              ELSE /\ local_dir' = c.dir
                   /\ fs' = fs \cup {c.dir}                              \* 403
                   /\ idx' = 1
                   /\ pc' = "cl_items"
                   /\ UNCHANGED stack
    /\ UNCHANGED <<mgmtVars, selVars, cmd, argVars, runVars, outVars, issued, lastRc,
                   tailVars, cl_run_name, overwrite, files, failKinds, clRet>>

\* where the loop goes after the attempt on item idx ended as o: on to the
\* next item, or (an exception nobody handles in the loop) out of it
AfterAttempt(o, more) ==
    IF o = "raised" /\ ItemExceptionHandler = "propagate"
    THEN /\ Return /\ UNCHANGED idx /\ files' = 0 - 1                    \* 467-469
    ELSE IF o # "raised" /\ more
    THEN /\ UNCHANGED <<pc, stack, idx>> /\ files' = files - 1
    ELSE /\ idx' = idx + 1 /\ files' = 0 - 1 /\ UNCHANGED <<pc, stack>>

\* lines 421-424 and 438-462: one item that is not a wildcard
CopyItem ==
    /\ pc = "cl_items"
    /\ idx <= NItems
    /\ LET item == TransferItems(cl_run_name)[idx]
           kind == ItemKind(item.remote) IN
         /\ kind # "wildcard"
         /\ issued' = Append(issued, Op(ItemProgram(kind), item.remote))
         /\ \E o \in Outcomes :
              /\ failKinds' = IF o = "ok" THEN failKinds ELSE failKinds \cup {o}
              /\ lastRc' = IF o = "raised" THEN lastRc ELSE o
              /\ AfterAttempt(o, FALSE)
    /\ UNCHANGED <<mgmtVars, selVars, cmd, argVars, runVars, outVars, tailVars,
                   cl_run_name, overwrite, local_dir, clRet, fs>>

\* lines 425-429: the wildcard's matches are listed; check_output raises on a
\* non-zero exit status as well
CopyWildList ==
    /\ pc = "cl_items"
    /\ idx <= NItems
    /\ files < 0
    /\ LET item == TransferItems(cl_run_name)[idx] IN
         /\ ItemKind(item.remote) = "wildcard"
         /\ issued' = Append(issued, Op("ssh", <<"ls">> \o item.remote))
    /\ \E o \in Outcomes, n \in 0..MaxFiles :
         IF o = "ok"
         THEN /\ IF n = 0
                 THEN idx' = idx + 1 /\ UNCHANGED files
                 ELSE files' = n /\ UNCHANGED idx
              /\ lastRc' = "ok"
              /\ UNCHANGED <<failKinds, pc, stack>>
         ELSE /\ n = 0
              /\ failKinds' = failKinds \cup {o}
              /\ lastRc' = IF o = "raised" THEN lastRc ELSE o
              /\ AfterAttempt("raised", FALSE)
    /\ UNCHANGED <<mgmtVars, selVars, cmd, argVars, runVars, outVars, tailVars,
                   cl_run_name, overwrite, local_dir, clRet, fs>>

\* lines 431-436: one match of the wildcard is copied
CopyWildFile ==
    /\ pc = "cl_items"
    /\ idx <= NItems
    /\ files > 0
    /\ issued' = Append(issued, Op("scp", <<"match">>))
    /\ \E o \in Outcomes :
         /\ failKinds' = IF o = "ok" THEN failKinds ELSE failKinds \cup {o}
         /\ lastRc' = IF o = "raised" THEN lastRc ELSE o
         /\ AfterAttempt(o, files > 1)
    /\ UNCHANGED <<mgmtVars, selVars, cmd, argVars, runVars, outVars, tailVars,
                   cl_run_name, overwrite, local_dir, clRet, fs>>

\* lines 464-465
CopyReturn ==
    /\ pc = "cl_items"
    /\ idx = NItems + 1
    /\ clRet' = local_dir
    /\ Return
    /\ UNCHANGED <<mgmtVars, selVars, cmd, argVars, runVars, outVars, issued, lastRc,
                   tailVars, cl_run_name, overwrite, local_dir, idx, files,
                   failKinds, fs>>

(***************************************************************************)
(* create_instance and instance_setup                                      *)
(***************************************************************************)
\* the elements of a list
Range(list) == { list[k] : k \in 1..Len(list) }

\* lines 120-126: the local files, in the order they are copied
FilesToCopy ==
    << "tmux_install.sh", "fixslurm.sh", "SHAPEFILE.shp", "SHAPEFILE.shx",
       "STATE_VECTOR" >>

\* what the options argument may be: absent, a JSON object, text that is
\* not JSON, JSON that dict.update rejects
OptionKinds == {"none", "valid", "bad_json", "bad_value"}

\* how a call of the provider's API may end
ApiOutcomes == {"ok", "error"}

\* how waiter.wait may end: the status checks pass, the attempts run out
\* (WaiterError), or a call of the provider raises
WaitOutcomes == {"ok", "timeout", "error"}

\* line 66: the id run_instances reports
NewInstanceId == <<"i-9">>

\* line 80: the PublicDnsName of the new instance, empty when it has none
NewDnsNames == { <<"h9">>, EmptyStr }

\* line 86: range(10)
ProbeAttempts == 10

\* a loop that gives up one handshake early
ProbeStepShort(o, n) ==
    IF o = "raised" THEN "raise"
    ELSE IF o = "ok" THEN "break"
    ELSE IF n + 1 < ProbeAttempts THEN "retry" ELSE "exhausted"

\* a loop that takes a handshake that failed for one that succeeded
ProbeStepBreaksOnFailure(o, n) ==
    IF o = "raised" THEN "raise" ELSE "break"

\* lines 86-98: what the loop does after handshake number n ended as o
ProbeStep(o, n) ==
    IF o = "raised" THEN "raise"                     \* not a CalledProcessError
    ELSE IF o = "ok" THEN "break"                    \* 95-96
    ELSE IF n < ProbeAttempts THEN "retry"           \* 97-98
    ELSE "exhausted"

\* lines 113-115: what create_instance returns and logs when e was raised
CreateFailure(e) == [ret |-> "False", log |-> e]

\* create_instance returns False after the exception e
CreateFails(e) ==
    /\ crRet' = CreateFailure(e).ret
    /\ crLog' = CreateFailure(e).log
    /\ pc' = "done"

\* handlers['create'] (line 648)
StartCreate ==
    /\ pc = "idle"
    /\ cmd' = "create"
    /\ \E k \in OptionKinds : options' = k
    /\ pc' = "cr_options"
    /\ UNCHANGED <<selVars, stack, argVars, runVars, outVars, issued, lastRc,
                   tailVars, copyVars, fs, instance_id, public_dns, waited,
                   attempts, ssh_ready, crRet, crLog, setupVars, lifeVars>>

\* lines 46-62: options that cannot be used end the call
CreateOptions ==
    /\ pc = "cr_options"
    /\ IF options = "bad_json"
       THEN crRet' = "False" /\ crLog' = "invalid_json" /\ pc' = "done"    \* 56-59
       ELSE IF options = "bad_value"
       THEN crRet' = "False" /\ crLog' = "invalid_options" /\ pc' = "done" \* 60-62
       ELSE pc' = "cr_run" /\ UNCHANGED <<crRet, crLog>>
    /\ UNCHANGED <<selVars, cmd, stack, argVars, runVars, outVars, issued,
                   lastRc, tailVars, copyVars, fs, options, instance_id,
                   public_dns, waited, attempts, ssh_ready, setupVars, lifeVars>>

\* lines 65-67
CreateRun ==
    /\ pc = "cr_run"
    /\ \E o \in ApiOutcomes :
         IF o = "ok"
         THEN /\ instance_id' = NewInstanceId
              /\ pc' = "cr_wait"
              /\ UNCHANGED <<crRet, crLog>>
         ELSE CreateFails("run_instances_error") /\ UNCHANGED instance_id
    /\ UNCHANGED <<selVars, cmd, stack, argVars, runVars, outVars, issued,
                   lastRc, tailVars, copyVars, fs, options, public_dns, waited,
                   attempts, ssh_ready, setupVars, lifeVars>>

\* lines 69-76
CreateWait ==
    /\ pc = "cr_wait"
    /\ \E o \in WaitOutcomes :
         /\ waited' = o
         /\ IF o = "ok" THEN pc' = "cr_describe" /\ UNCHANGED <<crRet, crLog>>
            ELSE IF o = "timeout" THEN CreateFails("status_timeout")
            ELSE CreateFails("waiter_error")
    /\ UNCHANGED <<selVars, cmd, stack, argVars, runVars, outVars, issued,
                   lastRc, tailVars, copyVars, fs, options, instance_id,
                   public_dns, attempts, ssh_ready, setupVars, lifeVars>>

\* lines 78-85
CreateDescribe ==
    /\ pc = "cr_describe"
    /\ \E o \in ApiOutcomes, dns \in NewDnsNames :
         IF o = "ok"
         THEN /\ public_dns' = dns
              /\ ssh_ready' = FALSE
              /\ attempts' = 0
              /\ pc' = "cr_probe"
              /\ UNCHANGED <<crRet, crLog>>
         ELSE /\ dns = EmptyStr
              /\ CreateFails("describe_error")
              /\ UNCHANGED <<public_dns, ssh_ready, attempts>>
    /\ UNCHANGED <<selVars, cmd, stack, argVars, runVars, outVars, issued,
                   lastRc, tailVars, copyVars, fs, options, instance_id, waited,
                   setupVars, lifeVars>>

\* lines 86-98: one pass of the loop, the handshake and what follows it
CreateProbe ==
    /\ pc = "cr_probe"
    /\ attempts' = attempts + 1
    /\ issued' = Append(issued, Op("ssh", "true"))
    /\ \E o \in Outcomes :
         LET step == ProbeStep(o, attempts + 1) IN
         /\ lastRc' = IF o = "raised" THEN lastRc ELSE o
         /\ ssh_ready' = IF step = "break" THEN TRUE ELSE ssh_ready
         /\ IF step = "raise" THEN CreateFails("exception")
            ELSE IF step = "retry" THEN UNCHANGED <<pc, crRet, crLog>>
            ELSE pc' = "cr_probed" /\ UNCHANGED <<crRet, crLog>>
    /\ UNCHANGED <<selVars, cmd, stack, argVars, runVars, outVars, tailVars,
                   copyVars, fs, options, instance_id, public_dns, waited,
                   setupVars, lifeVars>>

\* lines 100-105: the loop is over; instance_setup(public_dns) is called
\* when a handshake succeeded
CreateProbed ==
    /\ pc = "cr_probed"
    /\ IF ~ssh_ready
       THEN /\ CreateFails("ssh_failed")
            /\ UNCHANGED <<stack, setupVars>>
       ELSE /\ pc' = "su_copy"
            /\ stack' = <<"cr_setup_done">> \o stack
            /\ public_url' = public_dns
            /\ \E files_here \in SUBSET Range(FilesToCopy) : present' = files_here
            /\ copyNo' = 1
            /\ ran' = <<>>
            /\ suRet' = "None"
            /\ UNCHANGED <<crRet, crLog>>
    /\ UNCHANGED <<selVars, cmd, argVars, runVars, outVars, issued, lastRc,
                   tailVars, copyVars, fs, options, instance_id, public_dns,
                   waited, attempts, ssh_ready, lifeVars>>

\* a return that stores the new instance whatever instance_setup returned
SlotsOnReturnAlways(ret, newId, newDns, id, url) == [id |-> newId, url |-> newDns]

\* lines 105-111: the slots when instance_setup returned ret
SlotsOnReturn(ret, newId, newDns, id, url) ==
    IF ret = "True" THEN [id |-> newId, url |-> newDns]                 \* 107-108
    ELSE [id |-> id, url |-> url]                                       \* 110-115

\* lines 105-111: instance_setup returned
CreateSetupDone ==
    /\ pc = "cr_setup_done"
    /\ LET slots == SlotsOnReturn(suRet, instance_id, public_dns, envId, envUrl) IN
         /\ envId' = slots.id
         /\ envUrl' = slots.url
    /\ IF suRet = "True"
       THEN crRet' = "True" /\ pc' = "done" /\ UNCHANGED crLog           \* 109
       ELSE CreateFails("setup_failed")                                  \* 111
    /\ UNCHANGED <<resp, giRet, giLog, cmd, stack, argVars, runVars, outVars,
                   issued, lastRc, tailVars, copyVars, fs, options, instance_id,
                   public_dns, waited, attempts, ssh_ready, setupVars, lifeVars>>

\* lines 138-142: each command is a list of simple commands joined by &&
SetupCommands ==
    << <<"sudo apt remove -y tmux">>,
       <<"chmod +x tmux_install.sh", "&&", "./tmux_install.sh">>,
       <<"chmod +x fixslurm.sh", "&&", "./fixslurm.sh">> >>

\* sep.join(parts)
RECURSIVE Join(_, _)
Join(parts, sep) ==
    IF parts = <<>> THEN <<>>
    ELSE IF Len(parts) = 1 THEN Head(parts)
    ELSE Head(parts) \o sep \o Join(Tail(parts), sep)

\* line 146
SetupCommandLine == Join(SetupCommands, <<"&&">>)

\* the simple commands of a command line
SimpleCommands(line) == { line[k] : k \in { j \in 1..Len(line) : line[j] # "&&" } }

\* lines 144-147: the remote shell runs the command line, a list joined by
\* &&, from the left; it runs the command after a && only when the command
\* before it succeeded.  failing holds the commands that fail when run.
RECURSIVE ShAndList(_, _)
ShAndList(line, failing) ==
    IF line = <<>> THEN <<>>
    ELSE IF Head(line) = "&&" THEN ShAndList(Tail(line), failing)
    ELSE IF Head(line) \in failing THEN <<Head(line)>>
    ELSE <<Head(line)>> \o ShAndList(Tail(line), failing)

\* instance_setup returns
SetupReturns(ret) ==
    /\ suRet' = ret
    /\ Return

\* a loop that gives up at the first file that is missing
MissingFileFails == "return_false"

\* lines 134-135: a file that does not exist locally is logged and skipped
MissingFileStep == "skip"

\* lines 128-135: one entry of files_to_copy; a missing file is skipped, and
\* the exit status of scp is not read
SetupCopy ==
    /\ pc = "su_copy"
    /\ copyNo <= Len(FilesToCopy)
    /\ \E o \in Outcomes :
         IF FilesToCopy[copyNo] \notin present                           \* 129
         THEN /\ o = "ok"
              /\ IF MissingFileStep = "skip"
                 THEN copyNo' = copyNo + 1 /\ UNCHANGED <<pc, stack, suRet>>
                 ELSE SetupReturns("False") /\ UNCHANGED copyNo
              /\ UNCHANGED <<issued, lastRc>>
         ELSE /\ issued' = Append(issued, Op("scp", FilesToCopy[copyNo]))
              /\ IF o = "raised"
                 THEN SetupReturns("False") /\ UNCHANGED <<copyNo, lastRc>>  \* 151-153
                 ELSE /\ copyNo' = copyNo + 1
                      /\ lastRc' = o
                      /\ UNCHANGED <<pc, stack, suRet>>
    /\ UNCHANGED <<selVars, cmd, argVars, runVars, outVars, tailVars, copyVars,
                   fs, createVars, public_url, present, ran, lifeVars>>

\* lines 137-153: the command line is run in one remote session; the exit
\* status of ssh is not read
SetupRun ==
    /\ pc = "su_copy"
    /\ copyNo = Len(FilesToCopy) + 1
    /\ issued' = Append(issued, Op("ssh", "setup"))
    /\ \E o \in {"returned", "raised"}, failing \in SUBSET SimpleCommands(SetupCommandLine) :
         IF o = "raised"
         THEN /\ failing = {}
              /\ SetupReturns("False")                                   \* 151-153
              /\ UNCHANGED <<ran, lastRc>>
         ELSE /\ ran' = ShAndList(SetupCommandLine, failing)
              /\ lastRc' = IF ran'[Len(ran')] \in failing THEN "fail" ELSE "ok"
              /\ SetupReturns("True")                                    \* 149
    /\ UNCHANGED <<selVars, cmd, argVars, runVars, outVars, tailVars, copyVars,
                   fs, createVars, public_url, present, copyNo, lifeVars>>

(***************************************************************************)
(* stop_instance, terminate_instance and restart_instance                  *)
(***************************************************************************)
LifeCommands == {"stop", "terminate", "restart"}

\* a test that lets every instance it finds through
SelectionAcceptedAnyFound(c, state) == Truthy(state)

\* lines 158, 175 and 192: what get_instance returned lets the operation go on
SelectionAccepted(c, state) ==
    IF c = "terminate" THEN Truthy(state)                               \* 158
    ELSE IF c = "stop" THEN state = Running                             \* 175
    ELSE state = Stopped                                                \* 192

\* lines 159, 176 and 193: the error logged when it does not
RefusalLog(c) ==
    IF c = "terminate" THEN "none_found"
    ELSE IF c = "stop" THEN "not_running" ELSE "not_stopped"

\* an operation that clears the slots whether or not the provider accepted
\* the call
ProviderCallEffectAlwaysClears(o, id, url) ==
    [id |-> EmptyStr, url |-> EmptyStr, log |-> IF o = "ok" THEN "done" ELSE "failed"]

\* lines 163-169, 180-186 and 197-203: the slots and the message after the provider's
\* call ended as o
ProviderCallEffect(o, id, url) ==
    IF o = "ok"
    THEN [id |-> EmptyStr, url |-> EmptyStr, log |-> "done"]            \* 165-167
    ELSE [id |-> id, url |-> url, log |-> "failed"]                     \* 168-169

\* handlers['terminate'], handlers['stop'], handlers['restart'] (lines 649-651)
StartLife ==
    /\ pc = "idle"
    /\ \E c \in LifeCommands : cmd' = c
    /\ \E n \in InstanceNos : instance_no' = n
    /\ pc' = "lc_entry"
    /\ UNCHANGED <<selVars, stack, configfile, tmux, cfg, runVars, outVars,
                   issued, lastRc, tailVars, copyVars, fs, mgmtVars>>

\* lines 156-158, 172-174 and 189-191: the cached id is used unless an index
\* is given
LifeEntry ==
    /\ pc = "lc_entry"
    /\ instance_id' = GetEnv(envId)
    /\ IF instance_no # 0 \/ ~Truthy(GetEnv(envId))
       THEN CallGetInstance("lc_selected")
       ELSE pc' = "lc_call" /\ UNCHANGED stack
    /\ UNCHANGED <<selVars, cmd, argVars, runVars, outVars, issued, lastRc,
                   tailVars, copyVars, fs, options, public_dns, waited, attempts,
                   ssh_ready, crRet, crLog, setupVars, lifeVars>>

\* lines 158-161, 174-178 and 191-195
LifeSelected ==
    /\ pc = "lc_selected"
    /\ IF ~SelectionAccepted(cmd, giRet)
       THEN lcLog' = RefusalLog(cmd) /\ pc' = "done" /\ UNCHANGED instance_id
       ELSE instance_id' = GetEnv(envId) /\ pc' = "lc_call" /\ UNCHANGED lcLog
    /\ UNCHANGED <<selVars, cmd, stack, argVars, runVars, outVars, issued,
                   lastRc, tailVars, copyVars, fs, options, public_dns, waited,
                   attempts, ssh_ready, crRet, crLog, setupVars, apiRc>>

\* lines 163-169, 180-186 and 197-203
LifeCall ==
    /\ pc = "lc_call"
    /\ issued' = Append(issued, Op("ec2", cmd))
    /\ \E o \in ApiOutcomes :
         LET e == ProviderCallEffect(o, envId, envUrl) IN
         /\ apiRc' = o
         /\ envId' = e.id
         /\ envUrl' = e.url
         /\ lcLog' = e.log
    /\ pc' = "done"
    /\ UNCHANGED <<resp, giRet, giLog, cmd, stack, argVars, runVars, outVars,
                   lastRc, tailVars, copyVars, fs, createVars, setupVars>>

(***************************************************************************)
(* The caller.                                                             *)
(***************************************************************************)
\* the call returned and the caller makes another one in the same process
NextCommand ==
    /\ pc = "done"
    /\ pc' = "idle"
    /\ cmd' = "none"
    /\ instance_no' = 0
    /\ configfile' = <<>>
    /\ tmux' = FALSE
    /\ cfg' = NoFile
    /\ giRet' = NoneVal
    /\ giLog' = "none"
    /\ issued' = <<>>
    /\ lastRc' = "none"
    /\ tl_run_name' = NoneVal
    /\ linesRead' = <<>>
    /\ nCopy' = 0
    /\ cl_run_name' = NoneVal
    /\ overwrite' = FALSE
    /\ local_dir' = NoneVal
    /\ idx' = 0
    /\ files' = 0 - 1
    /\ failKinds' = {}
    /\ clRet' = NoneVal
    /\ options' = "none"
    /\ instance_id' = NoneVal
    /\ public_dns' = NoneVal
    /\ waited' = "no"
    /\ attempts' = 0
    /\ ssh_ready' = FALSE
    /\ crRet' = "None"
    /\ crLog' = "none"
    /\ public_url' = NoneVal
    /\ present' = {}
    /\ copyNo' = 0
    /\ ran' = <<>>
    /\ suRet' = "None"
    /\ apiRc' = "none"
    /\ lcLog' = "none"
    /\ UNCHANGED <<envId, envUrl, resp, stack, runVars, outVars, fs>>

InitWith(dirs) ==
    /\ envId = NoneVal
    /\ envUrl = NoneVal
    /\ cmd = "none"
    /\ pc = "idle"
    /\ stack = <<>>
    /\ instance_no = 0
    /\ resp = NoResponse
    /\ giRet = NoneVal
    /\ giLog = "none"
    /\ configfile = <<>>
    /\ tmux = FALSE
    /\ cfg = NoFile
    /\ run_name = NoneVal
    /\ use_slurm = "None"
    /\ exitCode = 0
    /\ exitReason = ""
    /\ issued = <<>>
    /\ lastRc = "none"
    /\ tl_run_name = NoneVal
    /\ linesRead = <<>>
    /\ nCopy = 0
    /\ cl_run_name = NoneVal
    /\ overwrite = FALSE
    /\ local_dir = NoneVal
    /\ idx = 0
    /\ files = 0 - 1
    /\ failKinds = {}
    /\ clRet = NoneVal
    /\ fs = dirs
    /\ options = "none"
    /\ instance_id = NoneVal
    /\ public_dns = NoneVal
    /\ waited = "no"
    /\ attempts = 0
    /\ ssh_ready = FALSE
    /\ crRet = "None"
    /\ crLog = "none"
    /\ public_url = NoneVal
    /\ present = {}
    /\ copyNo = 0
    /\ ran = <<>>
    /\ suRet = "None"
    /\ apiRc = "none"
    /\ lcLog = "none"

\* a process that starts with an empty data directory
Init == InitWith({})

\* a process that finds directories of earlier runs of job "a"
InitCopy == \E dirs \in SUBSET DirPool(<<"a">>) : InitWith(dirs)

NextSelect == StartGetInstance \/ GiDescribe \/ GiBody \/ NextCommand

NextCopy ==
    \/ StartCopy \/ GiDescribe \/ GiBody
    \/ CopyStart \/ CopySelected \/ CopyMkdir \/ CopyItem \/ CopyWildList
    \/ CopyWildFile \/ CopyReturn \/ NextCommand

NextTail ==
    \/ StartTail \/ GiDescribe \/ GiBody
    \/ TailStart \/ TailSelected \/ TailOpen \/ TailForeground \/ TailRead
    \/ TailCopied
    \/ CopyStart \/ CopySelected \/ CopyMkdir \/ CopyItem \/ CopyWildList
    \/ CopyWildFile \/ CopyReturn

NextRun ==
    \/ StartRun \/ GiDescribe \/ GiBody
    \/ RunSelected \/ RunValidate \/ RunCopyKalman \/ RunCopyConfig
    \/ RunLaunch \/ RunHandOff \/ RunReturn
    \/ TailStart \/ TailSelected \/ TailOpen \/ TailRead \/ TailCopied
    \/ CopyStart \/ CopySelected \/ CopyMkdir \/ CopyItem \/ CopyWildList
    \/ CopyWildFile \/ CopyReturn

NextCreate ==
    \/ StartCreate \/ CreateOptions \/ CreateRun \/ CreateWait \/ CreateDescribe
    \/ CreateProbe \/ CreateProbed \/ SetupCopy \/ SetupRun \/ CreateSetupDone

NextLife ==
    \/ StartGetInstance \/ GiDescribe \/ GiBody
    \/ StartLife \/ LifeEntry \/ LifeSelected \/ LifeCall \/ NextCommand

NextCreateSeq ==
    \/ StartGetInstance \/ GiDescribe \/ GiBody \/ NextCreate \/ NextCommand

\* get_instance called any number of times in one process
SpecSelect == Init /\ [][NextSelect]_vars
\* copy_to_local called any number of times in one process
SpecCopy == InitCopy /\ [][NextCopy]_vars
\* one call of tail_logfile
SpecTail == Init /\ [][NextTail]_vars
\* one call of run_command
SpecRun == Init /\ [][NextRun]_vars
\* get_instance, stop_instance, terminate_instance and restart_instance
\* called any number of times in one process
SpecLife == Init /\ [][NextLife]_vars
\* one call of create_instance
SpecCreate == Init /\ [][NextCreate]_vars
\* get_instance and create_instance called any number of times in one process
SpecCreateSeq == Init /\ [][NextCreateSeq]_vars
\* one call of create_instance in which every call it makes returns or
\* raises: the handshake has a connect timeout, the sleep is 30 seconds
SpecCreateFair == SpecCreate /\ WF_vars(NextCreate)

(***************************************************************************)
(* Claims about get_instance.                                              *)
(***************************************************************************)
\* the listing the call in progress builds from the provider's answer
Listing == BuildInstances(resp.Reservations)

\* C1: for a listing of n >= 1 instances and an index 0 <= i < n, the body of
\* get_instance sets both slots to the id and the address of the instance at
\* position i of that listing and returns that instance's state.
C1_SelectsListedInstance ==
    [][ (pc = "gi_body" /\ resp.kind = "ok"
            /\ instance_no >= 0 /\ instance_no < Len(Listing))
        => /\ envId' = Listing[instance_no + 1].id
           /\ envUrl' = Listing[instance_no + 1].public_dns
           /\ giRet' = Listing[instance_no + 1].state ]_vars

\* get_instance(1) returned after selecting the second of two instances
C1_Witness ==
    /\ cmd = "get_instance" /\ pc = "done" /\ instance_no = 1
    /\ giLog = "selected" /\ giRet = Pending
    /\ envId = <<"i-3">> /\ envUrl = <<"N", "/", "A">>

\* C2: with an index >= the number of listed instances (the empty listing
\* included), or when describe_instances raises, get_instance returns None
\* and both slots keep the values they had before the call.
C2_OutOfRangeKeepsSlots ==
    [][ (pc = "gi_body"
            /\ (resp.kind = "error" \/ instance_no >= Len(Listing)))
        => /\ giRet' = NoneVal
           /\ envId' = envId
           /\ envUrl' = envUrl ]_vars

\* a call with too large an index returned None with the slots of an earlier
\* selection still in place
C2_Witness ==
    /\ cmd = "get_instance" /\ pc = "done"
    /\ giLog = "invalid_number" /\ giRet = NoneVal
    /\ instance_no >= 1
    /\ envId = <<"i-1">> /\ envUrl = <<"h1">>

\* C3: for every negative index get_instance returns None and leaves both
\* slots untouched.
C3_NegativeIndexRejected ==
    [][ (pc = "gi_body" /\ instance_no < 0)
        => /\ giRet' = NoneVal
           /\ envId' = envId
           /\ envUrl' = envUrl ]_vars

(***************************************************************************)
(* Claims about run_command.                                               *)
(***************************************************************************)
\* the file has a top-level RunName line whose value is not the path's stem
DeclaresOtherName(file, path) ==
    /\ file.exists
    /\ \E k \in 1..Len(file.lines) :
         /\ StartsWith(file.lines[k], "RunName:")
         /\ RunNameValue(file.lines[k]) # ConfigStem(path)

\* what the file declares as UseSlurm: the value of its last UseSlurm line
RECURSIVE DeclaredSlurm(_)
DeclaredSlurm(lines) ==
    IF lines = <<>> THEN "None"
    ELSE IF ~StartsWith(lines[Len(lines)], "UseSlurm:")
    THEN DeclaredSlurm(SubSeq(lines, 1, Len(lines) - 1))
    ELSE IF SlurmValue(lines[Len(lines)]) = <<"t", "r", "u", "e">> THEN "True"
    ELSE IF SlurmValue(lines[Len(lines)]) = <<"f", "a", "l", "s", "e">> THEN "False"
    ELSE "Invalid"

\* the declared mode and the requested launch style do not go together
InconsistentMode(file, tm) ==
    /\ file.exists
    /\ \/ DeclaredSlurm(file.lines) = "True" /\ tm
       \/ DeclaredSlurm(file.lines) = "False" /\ ~tm

\* the declared mode is recognized and goes with the requested launch style
ConsistentMode(file, tm) ==
    /\ file.exists
    /\ \/ DeclaredSlurm(file.lines) = "True" /\ ~tm
       \/ DeclaredSlurm(file.lines) = "False" /\ tm

\* this invocation has sent the launch command
Launched ==
    \E k \in 1..Len(issued) : issued[k].what \in {"launch_tmux", "launch_sbatch"}

\* run_command is at or before its validation, or has ended without one
\* because no instance with an address was selected, or has ended by
\* sys.exit(1) with one of the errors
RejectedOrNotYet(errors) ==
    /\ pc \in {"gi_describe", "gi_body", "rc_selected", "rc_validate", "done", "exit"}
    /\ pc = "done" => ~Truthy(giRet) \/ ~Truthy(envUrl)
    /\ pc = "exit" => exitCode = 1 /\ exitReason \in errors

\* C4, as stated: on a config file whose declared RunName differs from the
\* file's stem, run_command ends by a fatal validation error with a non-zero
\* exit status and never launches the job.
C4_MismatchAlwaysFatal ==
    (cmd = "run" /\ DeclaresOtherName(cfg, configfile))
        => /\ ~Launched
           /\ pc \in {"gi_describe", "gi_body", "rc_selected", "rc_validate", "exit"}
           /\ pc = "exit" => exitCode = 1 /\ exitReason \in ValidationErrors

\* C4, amended: on such a file run_command never launches the job, and once
\* get_instance has selected an instance with a non-empty address it ends by
\* sys.exit(1) with a validation error; when no instance with an address is
\* selected it returns without validating the file.
C4_MismatchFatalOnceSelected ==
    (cmd = "run" /\ DeclaresOtherName(cfg, configfile))
        => /\ ~Launched
           /\ RejectedOrNotYet({"name_mismatch", "invalid_slurm"})

\* a run on a two-line file with another name has ended by the name error
C4_Witness ==
    /\ cmd = "run" /\ pc = "exit" /\ exitCode = 1
    /\ exitReason = "name_mismatch"
    /\ DeclaresOtherName(cfg, configfile)
    /\ Len(cfg.lines) = 2 /\ tmux
    /\ ~Launched

\* C5, as stated: run_command rejects UseSlurm=true with a tmux request and
\* UseSlurm=false without one by a fatal error and no launch; the two
\* consistent combinations are not rejected by this check.
C5_ConflictAlwaysFatal ==
    /\ (cmd = "run" /\ InconsistentMode(cfg, tmux))
         => /\ ~Launched
            /\ pc \in {"gi_describe", "gi_body", "rc_selected", "rc_validate", "exit"}
            /\ pc = "exit" => exitCode = 1 /\ exitReason \in ValidationErrors
    /\ (cmd = "run" /\ ConsistentMode(cfg, tmux))
         => exitReason \notin {"conflict_slurm_tmux", "conflict_noslurm_notmux"}

\* C5, amended: both inconsistent combinations never launch, and once
\* get_instance has selected an instance with a non-empty address they end by
\* sys.exit(1) with a validation error; the consistent combinations are never
\* rejected by the mode check.
C5_ConflictFatalOnceSelected ==
    /\ (cmd = "run" /\ InconsistentMode(cfg, tmux))
         => /\ ~Launched
            /\ RejectedOrNotYet(ValidationErrors)
    /\ (cmd = "run" /\ ConsistentMode(cfg, tmux))
         => exitReason \notin {"conflict_slurm_tmux", "conflict_noslurm_notmux"}

\* a run without tmux on a file that declares UseSlurm: False has ended by
\* the mode conflict error
C5_Witness ==
    /\ cmd = "run" /\ pc = "exit" /\ exitCode = 1
    /\ exitReason = "conflict_noslurm_notmux"
    /\ DeclaredSlurm(cfg.lines) = "False" /\ ~tmux
    /\ ~Launched

\* C6: a launch command is issued only if the config file declared a
\* recognized execution mode that is consistent with the requested launch
\* style; a file with no UseSlurm line never reaches the launch.
C6_LaunchOnlyIfDeclaredConsistent ==
    (cmd = "run" /\ cfg.exists /\ Launched) => ConsistentMode(cfg, tmux)

\* C7: when run_command ends in a validation failure, the exit status is
\* non-zero and this invocation has issued no file copy and no remote command.
C7_NothingIssuedBeforeValidationFailure ==
    (cmd = "run" /\ pc = "exit" /\ exitReason \in ValidationErrors)
        => exitCode = 1 /\ issued = <<>>

\* a run has ended by the unrecognized-spelling error with nothing issued
C7_Witness ==
    /\ cmd = "run" /\ pc = "exit" /\ exitCode = 1
    /\ exitReason = "invalid_slurm"
    /\ Truthy(giRet) /\ Truthy(envUrl)
    /\ issued = <<>>

(***************************************************************************)
(* Claims about copy_to_local.                                             *)
(***************************************************************************)
\* the k-th name of the order run, run_1, run_2, ...
Candidate(rn, k) ==
    IF k = 0 THEN LocalDirBase(rn) ELSE SuffixedDir(LocalDirBase(rn), k)

\* C8: a call without override uses the first name among run, run_1, run_2,
\* ... that did not exist when it started, so never a directory an earlier
\* call made; a call with override uses the unsuffixed name whatever exists.
C8_FirstFreeDirectory ==
    [][ (pc = "cl_mkdir" /\ pc' = "cl_items")
        => IF overwrite
           THEN local_dir' = LocalDirBase(cl_run_name)
           ELSE /\ local_dir' \notin fs
                /\ \E k \in 0..MaxSuffix :
                     /\ local_dir' = Candidate(cl_run_name, k)
                     /\ \A j \in 0..(k - 1) : Candidate(cl_run_name, j) \in fs ]_vars

\* a call without override is using data/a_2, data/a and data/a_1 existing
C8_Witness ==
    /\ cmd = "copy_local" /\ pc = "cl_items" /\ ~overwrite
    /\ local_dir = <<"data", "/", "a", "_", "2">>
    /\ {<<"data", "/", "a">>, <<"data", "/", "a", "_", "1">>} \subseteq fs

\* the transfer the loop starts item k with
ItemAttempt(rn, k) ==
    LET item == TransferItems(rn)[k] IN
    IF Contains(item.remote, "*") THEN <<"ls">> \o item.remote ELSE item.remote

IsItemAttempt(e) == e.what # <<"match">>

\* the items this call has started, in the order it started them
ItemsAttempted ==
    LET a == SelectSeq(issued, IsItemAttempt) IN [k \in 1..Len(a) |-> a[k].what]

\* C10: whatever transfers fail and however, copy_to_local attempts every
\* item of the manifest in the fixed order and returns the local directory.
C10_FailuresIsolated ==
    (cmd = "copy_local" /\ pc = "done" /\ local_dir # NoneVal)
        => /\ clRet = local_dir
           /\ ItemsAttempted = [k \in 1..NItems |-> ItemAttempt(cl_run_name, k)]

\* a call in which a transfer ended by a non-zero status and another raised
\* has returned its directory
C10_Witness ==
    /\ cmd = "copy_local" /\ pc = "done"
    /\ failKinds = {"fail", "raised"}
    /\ clRet = local_dir /\ local_dir # NoneVal
    /\ Len(ItemsAttempted) = NItems

(***************************************************************************)
(* Claims about tail_logfile.                                              *)
(***************************************************************************)
\* the line holds one of the two completion markers
HasMarker(line) == Contains(line, "Posterior") \/ Contains(line, "IMI ended")

MarkerLines == { k \in 1..Len(linesRead) : HasMarker(linesRead[k]) }

\* C9: with a job name, copy_to_local is invoked exactly once when a line
\* with a marker is read, at the first such line, and no line is read after
\* it; while no line with a marker has been read, the end of the stream
\* included, copy_to_local is not invoked.
C9_OneRetrievalAtFirstMarker ==
    Truthy(tl_run_name)
        => /\ nCopy = Cardinality(MarkerLines)
           /\ \A k \in MarkerLines : k = Len(linesRead)
           /\ nCopy <= 1
           /\ nCopy = 1 => pc # "tl_read"

\* tail_logfile has returned after one retrieval, started at the second
\* line, the first without a marker
C9_Witness ==
    /\ cmd = "log" /\ pc = "done" /\ Truthy(tl_run_name)
    /\ nCopy = 1 /\ Len(linesRead) = 2
    /\ Contains(linesRead[2], "IMI ended") /\ ~HasMarker(linesRead[1])

(***************************************************************************)
(* Claims about create_instance and instance_setup.                        *)
(***************************************************************************)
\* the handshakes this call has attempted
Handshakes == { k \in 1..Len(issued) : issued[k] = Op("ssh", "true") }

\* C11: the handshake loop runs a handshake only while fewer than 10 were run
\* and none succeeded; it goes round again only after a handshake that
\* failed; a handshake that succeeds, the tenth included, ends the loop with
\* ssh_ready set; the loop ends without ssh_ready only after ten handshakes;
\* after the loop create_instance goes on to instance_setup when ssh_ready is
\* set and returns False otherwise; and the loop always ends.
C11_HandshakeLoopBounded ==
    /\ [][ pc = "cr_probe"
             => /\ attempts < ProbeAttempts /\ ~ssh_ready
                /\ Cardinality(Handshakes') = attempts' /\ attempts' = attempts + 1
                /\ pc' = "cr_probe" => lastRc' = "fail" /\ attempts' < ProbeAttempts
                /\ lastRc' = "ok" => ssh_ready' /\ pc' = "cr_probed"
                /\ (pc' = "cr_probed" /\ ~ssh_ready') => attempts' = ProbeAttempts ]_vars
    /\ [][ pc = "cr_probed"
             => IF ssh_ready
                THEN pc' = "su_copy" /\ crRet' = "None"
                ELSE pc' = "done" /\ crRet' = "False" /\ crLog' = "ssh_failed" ]_vars
    /\ (pc = "cr_probe" ~> pc # "cr_probe")

\* nine handshakes failed, the tenth succeeded, and instance_setup has begun
C11_Witness ==
    /\ pc = "su_copy" /\ attempts = ProbeAttempts /\ ssh_ready
    /\ Cardinality(Handshakes) = ProbeAttempts

\* C12: a call of create_instance that ended on the readiness timeout has
\* returned a value other than the one a call returns after ten failed
\* handshakes.
C12_FailureKindsDistinguished ==
    (cmd = "create" /\ pc = "done" /\ crLog = "status_timeout")
        => crRet # CreateFailure("ssh_failed").ret

\* instance_setup has been called
SetupInvoked == public_url # NoneVal

\* the commands instance_setup has sent
SetupOps ==
    { k \in 1..Len(issued) :
        \/ issued[k] = Op("ssh", "setup")
        \/ \E f \in 1..Len(FilesToCopy) : issued[k] = Op("scp", FilesToCopy[f]) }

\* C13: instance_setup is entered only by a step taken when the status-ok
\* wait has ended successfully and the last handshake has returned
\* successfully; after a readiness timeout, and after ten handshakes none of
\* which succeeded, instance_setup has not been invoked, none of its commands
\* has been sent, and create_instance, once it has returned, has returned
\* False.
C13_SetupOnlyWhenReady ==
    /\ [][ (pc # "su_copy" /\ pc' = "su_copy")
             => /\ waited = "ok" /\ lastRc = "ok" /\ Handshakes # {}
                /\ issued[Len(issued)] = Op("ssh", "true") ]_vars
    /\ [] ( SetupInvoked => waited = "ok" /\ ssh_ready )
    /\ [] ( (waited = "timeout"
               \/ (Cardinality(Handshakes) = ProbeAttempts /\ ~ssh_ready))
            => /\ ~SetupInvoked /\ SetupOps = {}
               /\ pc \in {"cr_probed", "done"}
               /\ pc = "done" => crRet = "False" )

\* instance_setup has returned to a create_instance whose wait and third
\* handshake succeeded
C13_Witness ==
    /\ pc = "cr_setup_done" /\ suRet = "True" /\ SetupInvoked
    /\ waited = "ok" /\ ssh_ready /\ attempts = 3
    /\ Op("ssh", "setup") = issued[Len(issued)]

\* where the remote shell began the command, 0 when it did not
StartedAt(command) ==
    IF \E j \in 1..Len(ran) : ran[j] = Head(command)
    THEN CHOOSE j \in 1..Len(ran) : ran[j] = Head(command)
    ELSE 0

\* C14: once the remote session of instance_setup has run, each of the three
\* commands has been attempted, in the order of the list, whichever of their
\* parts failed.
C14_EveryCommandAttempted ==
    (suRet = "True")
        => /\ \A k \in 1..Len(SetupCommands) : StartedAt(SetupCommands[k]) > 0
           /\ \A k \in 1..(Len(SetupCommands) - 1) :
                StartedAt(SetupCommands[k]) < StartedAt(SetupCommands[k + 1])

(***************************************************************************)
(* Claims about the steps of run_command after the validation.             *)
(***************************************************************************)
\* the launch command of this call
LaunchOp == Op("ssh", IF tmux THEN "launch_tmux" ELSE "launch_sbatch")

\* C15: the step that copies the config file either ends with a copy that
\* succeeded or ends the invocation with exit status 1; the launch command is
\* sent, and tail_logfile is called, only after a copy that succeeded.
C15_ConfigCopyFailurePropagates ==
    /\ [][ pc = "rc_copycfg"
             => \/ lastRc' = "ok" /\ pc' = "rc_launch"
                \/ pc' = "exit" /\ exitCode' = 1 ]_vars
    /\ [][ (pc = "rc_launch" /\ issued' = Append(issued, LaunchOp))
             => lastRc = "ok" ]_vars

\* C16: tail_logfile is called by the step that follows the launch command,
\* with the RunName of the config file or else its stem as job name, and only
\* when the launch command succeeded; after a launch command that failed
\* neither the tail command nor a transfer of results is sent.
C16_MonitorOnlyAfterLaunchSucceeded ==
    /\ [][ pc = "rc_launched"
             => /\ issued[Len(issued)] = LaunchOp
                /\ lastRc = "ok"
                /\ pc' = "tl_start"
                /\ tl_run_name' = IF Truthy(run_name) THEN run_name
                                  ELSE ConfigStem(configfile) ]_vars
    /\ [][ (pc = "rc_launch" /\ lastRc' = "fail")
             => pc' \notin {"rc_launched", "tl_start"} ]_vars

(***************************************************************************)
(* Claims about the transfers of copy_to_local.                            *)
(***************************************************************************)
\* the remote subdirectories and the individual files of the manifest
ManifestDirs == {"preview", "inversion", "hemco_prior_emis", "archive_sf"}
ManifestFiles == { <<"imi_output", ".log">>, <<"StateVector", ".nc">> }

\* C17: every transfer of one of the four remote subdirectories is made with
\* rsync, and every transfer of imi_output.log or StateVector.nc with scp.
C17_DirectoriesMirroredFilesCopied ==
    \A k \in 1..Len(issued) :
        /\ \A d \in ManifestDirs :
             issued[k].what = RemoteBase(cl_run_name) \o <<"/", d>>
                => issued[k].op = "rsync"
        /\ \A f \in ManifestFiles :
             issued[k].what = RemoteBase(cl_run_name) \o <<"/">> \o f
                => issued[k].op = "scp"

(***************************************************************************)
(* Claims about stop_instance and terminate_instance.                      *)
(***************************************************************************)
\* C18: the step of stop_instance or terminate_instance that calls the
\* provider leaves both slots empty when the call succeeded and leaves both
\* as they were when it failed; so the operation ends with both slots empty
\* after a call that succeeded, and with the id it sent still in its slot
\* after a call that failed.
C18_SlotsClearedOnSuccessOnly ==
    /\ [][ pc = "lc_call"
             => /\ cmd \in LifeCommands /\ Truthy(envId) /\ instance_id = envId
                /\ apiRc' = "ok" => envId' = EmptyStr /\ envUrl' = EmptyStr
                /\ apiRc' = "error" => envId' = envId /\ envUrl' = envUrl ]_vars
    /\ [] ( (pc = "done" /\ apiRc = "ok") => envId = EmptyStr /\ envUrl = EmptyStr )
    /\ [] ( (pc = "done" /\ apiRc = "error") => envId = instance_id /\ Truthy(envId) )

\* stop_instance has ended after a call the provider accepted for the
\* instance whose id and address were in the slots
C18_Witness ==
    /\ cmd = "stop" /\ pc = "done" /\ apiRc = "ok" /\ lcLog = "done"
    /\ instance_id = <<"i-1">> /\ envId = EmptyStr /\ envUrl = EmptyStr

(***************************************************************************)
(* Claims about what copy_to_local returns.                                *)
(***************************************************************************)
\* the slot holds no address: it is empty, or it holds the placeholder
\* get_instance stores for an instance listed without a PublicDnsName
NoAddress(url) ==
    url = EmptyStr \/ url = DictGetDns([PublicDnsName |-> Absent])

\* the selection of the call in progress failed, or selected an instance
\* without an address
Unresolved == ~Truthy(giRet) \/ NoAddress(envUrl)

\* C19: past its selection, a copy_to_local call whose instance could not be
\* resolved or has no address has made no directory and sent no command, and
\* returns no path; every other call has, when it returns, returned the
\* directory it made.
C19_PathUnlessUnresolved ==
    /\ (cmd = "copy_local" /\ pc \in {"cl_mkdir", "cl_items", "done"} /\ Unresolved)
          => local_dir = NoneVal /\ issued = <<>> /\ clRet = NoneVal
    /\ (cmd = "copy_local" /\ pc = "done" /\ ~Unresolved)
          => Truthy(clRet) /\ clRet = local_dir /\ local_dir \in fs

(***************************************************************************)
(* Claims about tail_logfile without a job name.                           *)
(***************************************************************************)
\* C20: a tail_logfile call without a job name never calls copy_to_local,
\* whatever lines its log holds: it sends the tail command and nothing else.
C20_NoRetrievalWithoutJobName ==
    (cmd = "log" /\ ~Truthy(tl_run_name))
        => /\ nCopy = 0
           /\ cl_run_name = NoneVal /\ local_dir = NoneVal /\ clRet = NoneVal
           /\ pc \notin {"tl_read", "tl_copied", "cl_start", "cl_selected",
                         "cl_mkdir", "cl_items"}
           /\ \A k \in 1..Len(issued) : issued[k] = Op("ssh", "tail")

\* a tail without a job name has ended after its log showed a line with
\* each of the two markers
C20_Witness ==
    /\ cmd = "log" /\ pc = "done" /\ ~Truthy(tl_run_name) /\ nCopy = 0
    /\ Len(linesRead) = 2
    /\ Contains(linesRead[1], "Posterior") /\ Contains(linesRead[2], "IMI ended")

(***************************************************************************)
(* Claims about the copies of instance_setup.                              *)
(***************************************************************************)
IsSetupOp(e) ==
    e = Op("ssh", "setup") \/ \E f \in Range(FilesToCopy) : e = Op("scp", f)

\* what instance_setup has sent, in the order it sent it
SetupSent ==
    LET a == SelectSeq(issued, IsSetupOp) IN [k \in 1..Len(a) |-> a[k].what]

IsPresent(f) == f \in present

\* the files among the first n of the list that exist locally, in list order
PresentUpTo(n) == SelectSeq(SubSeq(FilesToCopy, 1, n), IsPresent)

\* everything a call that meets no exception sends
FullSetup == PresentUpTo(Len(FilesToCopy)) \o <<"setup">>

\* C21 as stated: whichever of the five files exist, instance_setup, once it
\* has returned, has copied the present ones in list order and no other, has
\* then run the remote session once, and has returned True.
C21_PresentCopiedThenSessionAlways ==
    (suRet # "None") => SetupSent = FullSetup /\ suRet = "True"

\* C21, amended: whichever of the five files exist, instance_setup copies the
\* present ones among the files the loop has passed, in list order, and no
\* other; it returns True only after all of them and then one remote
\* session, whatever the exit statuses; it returns False only when the copy
\* of a present file, or the session, could not be started, and then sends
\* nothing more.
C21_PresentCopiedThenSession ==
    /\ (pc = "su_copy") => SetupSent = PresentUpTo(copyNo - 1)
    /\ (suRet = "True") => SetupSent = FullSetup
    /\ (suRet = "False")
          => \/ /\ copyNo <= Len(FilesToCopy)
                /\ FilesToCopy[copyNo] \in present
                /\ SetupSent = PresentUpTo(copyNo)
             \/ /\ copyNo = Len(FilesToCopy) + 1
                /\ SetupSent = FullSetup /\ ran = <<>>

\* instance_setup has returned True with only the second and the fifth file
\* present, after the remote session ran
C21_Witness ==
    /\ pc = "cr_setup_done" /\ suRet = "True"
    /\ present = {"fixslurm.sh", "STATE_VECTOR"}
    /\ SetupSent = <<"fixslurm.sh", "STATE_VECTOR", "setup">>
    /\ ran # <<>>

(***************************************************************************)
(* Claims about the slots create_instance sets.                            *)
(***************************************************************************)
\* C22: the only step of create_instance that changes a slot is its last,
\* after instance_setup returned True to a call whose launch, status-ok wait,
\* address resolution and handshake succeeded; that step stores the new
\* instance's id and address and returns True.  Every other step, and so
\* every path that returns False, leaves both slots as they were.
C22_SlotsSetOnlyOnSuccess ==
    /\ [][ cmd' = "create"
             => \/ envId' = envId /\ envUrl' = envUrl
                \/ /\ pc = "cr_setup_done" /\ suRet = "True"
                   /\ waited = "ok" /\ ssh_ready /\ instance_id = NewInstanceId
                   /\ envId' = instance_id /\ envUrl' = public_dns
                   /\ crRet' = "True" /\ pc' = "done" ]_vars
    /\ [][ (cmd' = "create" /\ crRet' = "False")
             => envId' = envId /\ envUrl' = envUrl ]_vars
    /\ [] ( (cmd = "create" /\ pc = "done")
              => /\ crRet \in {"True", "False"}
                 /\ crRet = "True" <=> crLog = "none"
                 /\ crRet = "True" => envId = instance_id /\ envUrl = public_dns )

\* create_instance has returned False after instance_setup failed, and the
\* slots still hold the instance an earlier get_instance selected
C22_Witness ==
    /\ cmd = "create" /\ pc = "done" /\ crRet = "False" /\ crLog = "setup_failed"
    /\ instance_id = NewInstanceId
    /\ envId = <<"i-1">> /\ envUrl = <<"h1">>

(***************************************************************************)
(* Claims about the instance the stages of run_command address.            *)
(***************************************************************************)
\* C23: in a run_command invocation, tail_logfile sends its tail command, and
\* copy_to_local makes its transfers, to the address run_command sent the
\* job to, whatever the provider lists when they select the instance again.
C23_SameInstanceInEveryStage ==
    (cmd = "run" /\ pc \in {"tl_open", "tl_read", "cl_mkdir", "cl_items"})
        => GetEnv(envUrl) = public_url

(***************************************************************************)
(* Claims about the state stop_instance and restart_instance require.      *)
(***************************************************************************)
\* the state the operation requires of an instance it selects
RequiredState(c) == IF c = "stop" THEN Running ELSE Stopped

\* the operation in progress selected its instance with get_instance
BySelection == giLog # "none"

\* C24: stop_instance and restart_instance select their instance exactly when
\* the index is not 0 or the id slot is empty; after the selection they go on
\* to the provider's call only when get_instance returned 'running' (stop) or
\* 'stopped' (restart), and otherwise, a failed selection included, return
\* without any call to the provider.
C24_StateCheckedAfterSelection ==
    /\ [][ (pc = "lc_entry" /\ cmd \in {"stop", "restart"})
             => (pc' = "gi_describe" <=> (instance_no # 0 \/ ~Truthy(envId))) ]_vars
    /\ [][ (pc = "lc_selected" /\ cmd \in {"stop", "restart"})
             => IF giRet = RequiredState(cmd)
                THEN pc' = "lc_call"
                ELSE pc' = "done" /\ issued' = issued /\ apiRc' = "none" ]_vars
    /\ [] ( (cmd \in {"stop", "restart"} /\ BySelection
               /\ (pc = "lc_call" \/ issued # <<>> \/ apiRc # "none"))
            => giRet = RequiredState(cmd) )

\* restart_instance, given index 1, has selected a stopped instance and the
\* provider has accepted the start call
C24_Witness ==
    /\ cmd = "restart" /\ pc = "done" /\ instance_no = 1 /\ BySelection
    /\ giRet = Stopped /\ apiRc = "ok" /\ issued = <<Op("ec2", "restart")>>
    /\ instance_id = <<"i-2">>

====
